---- MODULE Spec2Model ----
(***************************************************************************)
(* Model of src/flatten.py: flatten(data), which is one call of            *)
(* pandas.json_normalize with record_path "products" and seven meta paths, *)
(* and lambda_handler(event, context), which fetches an S3 object, decodes *)
(* it, flattens it, encodes the frame as parquet in memory and puts the    *)
(* buffer under a timestamped key.                                         *)
(***************************************************************************)
EXTENDS Integers, Sequences, FiniteSets, TLC

VARIABLES
    data,       \* flatten's argument object, as it is on the heap now
    snapshot,   \* the value of that object before the first call
    outs,       \* what each call of flatten(data) produced, in call order
    pc,         \* lambda_handler: position of each invocation
    content,    \* lambda_handler: decoded text of the fetched object
    order,      \* lambda_handler: data = json.loads(content)
    df,         \* lambda_handler: df = flatten(data)
    buffer,     \* lambda_handler: parquet_buffer, what has been encoded into it
    keyStaging, \* lambda_handler: key_staging
    puts,       \* lambda_handler: number of put_object calls made by each invocation
    env,        \* os.environ: the variables set, with their values
    clock,      \* wall clock as datetime.now() reads it, in ticks
    curated,    \* the curated bucket: key -> [body, by], the object stored there
    putLog      \* every completed put_object, in completion order

flattenVars == <<data, snapshot, outs>>
handlerVars == <<pc, content, order, df, buffer, keyStaging, puts, env, clock,
                 curated, putLog>>
vars == <<data, snapshot, outs, pc, content, order, df, buffer, keyStaging, puts,
          env, clock, curated, putLog>>

----------------------------------------------------------------------------
(* Bounds of the model *)

\* longest products list drawn as an input
MaxItems == 2
\* how many times flatten is called on the same input object
MaxCalls == 2
\* number of lambda_handler invocations in flight
NumInvocations == 2
\* last tick the wall clock reaches
MaxClock == 3
\* ticks of the wall clock in one second
TicksPerSecond == 2

----------------------------------------------------------------------------
(* JSON values as json.loads builds them: every value carries its Python   *)
(* type in t and its payload in a field named after the type.              *)

Str(s) == [t |-> "str", s |-> s]
Num(n) == [t |-> "num", n |-> n]
Dict(d) == [t |-> "dict", d |-> d]
Lst(l) == [t |-> "list", l |-> l]
Null == [t |-> "null"]
\* float nan: what json.loads makes of NaN, and pandas' marker of a missing cell
NaN == [t |-> "nan"]

\* outcome of a Python expression: a value, or a raised exception
Ok(v) == [exc |-> "none", val |-> v]
Raise(e) == [exc |-> e]

\* obj[key] for a string key
GetItem(obj, key) ==
    IF obj.t = "dict"
    THEN IF key \in DOMAIN obj.d THEN Ok(obj.d[key]) ELSE Raise("KeyError")
    ELSE Raise("TypeError")

\* pd.isnull(v) for a scalar v
isnull(v) == v.t \in {"null", "nan"}

----------------------------------------------------------------------------
(* pandas.json_normalize, as flatten calls it *)

record_path == "products"
sep == "."
meta == << <<"order_id">>, <<"order_date">>, <<"total_amount">>,
           <<"customer", "customer_id">>, <<"customer", "name">>,
           <<"customer", "email">>, <<"customer", "address">> >>

RECURSIVE Join(_)
\* sep.join(val)
Join(val) == IF Len(val) = 1 THEN val[1] ELSE val[1] \o sep \o Join(Tail(val))

\* meta_keys = [sep.join(val) for val in _meta]
meta_keys == [i \in 1..Len(meta) |-> Join(meta[i])]

\* _pull_field that stops after the first field of the path
pull_field_first(js, spec) ==
    IF spec = <<>> THEN Ok(js)
    ELSE IF js = Null THEN Raise("KeyError")
    ELSE GetItem(js, Head(spec))

RECURSIVE pull_field_ignore(_, _)
\* _pull_field as under errors="ignore": a KeyError becomes np.nan
pull_field_ignore(js, spec) ==
    IF spec = <<>> THEN Ok(js)
    ELSE IF js = Null THEN Ok(NaN)
    ELSE LET r == GetItem(js, Head(spec))
         IN IF r.exc = "KeyError" THEN Ok(NaN)
            ELSE IF r.exc # "none" THEN r
            ELSE pull_field_ignore(r.val, Tail(spec))

RECURSIVE pull_field(_, _)
\* _pull_field(js, spec) for a list spec with errors="raise": walk the path,
\* a None on the way is a KeyError, a missing key is a KeyError, anything the
\* subscript itself raises (TypeError) is not caught
pull_field(js, spec) ==
    IF spec = <<>> THEN Ok(js)
    ELSE IF js = Null THEN Raise("KeyError")
    ELSE LET r == GetItem(js, Head(spec))
         IN IF r.exc # "none" THEN r ELSE pull_field(r.val, Tail(spec))

\* _pull_records that takes a list without records for a missing path
pull_records_nonempty(js, spec) ==
    LET r == GetItem(js, spec)
    IN IF r.exc # "none" THEN r
       ELSE IF r.val.t = "list"
            THEN IF r.val.l = <<>> THEN Raise("KeyError") ELSE Ok(r.val.l)
       ELSE IF isnull(r.val) THEN Ok(<<>>)
       ELSE Raise("TypeError")

\* _pull_records(js, spec) for the string spec "products": js[spec], which
\* must be a list; a null there is taken as no records, any other value is a
\* TypeError
pull_records(js, spec) ==
    LET r == GetItem(js, spec)
    IN IF r.exc # "none" THEN r
       ELSE IF r.val.t = "list" THEN Ok(r.val.l)
       ELSE IF isnull(r.val) THEN Ok(<<>>)
       ELSE Raise("TypeError")

RECURSIVE nested_pairs(_, _, _)
\* the (newkey, value) pairs nested_to_record leaves in new_d: a dict value is
\* popped and replaced by its own pairs under the prefixed key
nested_pairs(d, prefix, level) ==
    UNION { LET newkey == IF level = 0 THEN k ELSE prefix \o sep \o k
            IN IF d[k].t # "dict" THEN {<<newkey, d[k]>>}
               ELSE nested_pairs(d[k].d, newkey, level + 1)
          : k \in DOMAIN d }

\* the mapping nested_to_record builds for one dict
flat_record(d) ==
    LET ps == nested_pairs(d, "", 0)
    IN [k \in {p[1] : p \in ps} |-> (CHOOSE p \in ps : p[1] = k)[2]]

\* nested_to_record without the deepcopy: new_d is d itself, so the pops and
\* updates land in the caller's item
nested_to_record_inplace(d) == [new_d |-> flat_record(d), d |-> flat_record(d)]

\* nested_to_record(d) for one dict: new_d = copy.deepcopy(d) is rewritten and
\* returned, d is only read
nested_to_record(d) == [new_d |-> flat_record(d), d |-> d]

\* DataFrame(records) for a list of dicts: the columns are the union of the
\* records' keys, a cell a record has no key for is NaN, one row per record
DataFrame(records) ==
    LET cols == UNION {DOMAIN records[i] : i \in 1..Len(records)}
    IN [columns |-> cols,
        rows |-> [i \in 1..Len(records) |->
                    [c \in cols |-> IF c \in DOMAIN records[i]
                                    THEN records[i][c] ELSE NaN]]]

RECURSIVE repeat(_, _)
\* values.repeat(lengths): values[i] taken lengths[i] times, in order
repeat(values, lengths) ==
    IF values = <<>> THEN <<>>
    ELSE [j \in 1..Head(lengths) |-> Head(values)]
         \o repeat(Tail(values), Tail(lengths))

\* result[k] = column: a new column k, cell i taken from column[i]; a column
\* whose length is not the frame's is a ValueError
set_column(result, k, column) ==
    IF Len(column) # Len(result.rows) THEN Raise("ValueError")
    ELSE Ok([columns |-> result.columns \cup {k},
             rows |-> [i \in 1..Len(result.rows) |->
                        [c \in result.columns \cup {k} |->
                            IF c = k THEN column[i] ELSE result.rows[i][c]]]])

\* what one item of products contributes to records, and what the call leaves
\* of the item: only a dict goes through nested_to_record
item_record(r) == IF r.t = "dict" THEN nested_to_record(r.d).new_d ELSE r
item_after(r) == IF r.t = "dict" THEN Dict(nested_to_record(r.d).d) ELSE r

\* one turn of the loop "for obj in data" of _recursive_extract at level 0:
\* the records of obj, then one value per meta path, the first failure raising
extract_obj(obj) ==
    LET pr == pull_records(obj, record_path)
    IN IF pr.exc # "none" THEN [exc |-> pr.exc, after |-> obj]
       ELSE LET recs == [i \in 1..Len(pr.val) |-> item_record(pr.val[i])]
                after == IF obj.d[record_path].t = "list"
                         THEN Dict([obj.d EXCEPT ![record_path] =
                                Lst([i \in 1..Len(pr.val) |-> item_after(pr.val[i])])])
                         ELSE obj
                pulls == [i \in 1..Len(meta) |-> pull_field(obj, meta[i])]
                bad == {i \in 1..Len(meta) : pulls[i].exc # "none"}
            IN IF bad # {}
               THEN [exc |-> pulls[CHOOSE i \in bad : \A j \in bad : i <= j].exc,
                     after |-> after]
               ELSE [exc |-> "none", after |-> after, records |-> recs,
                     meta_val |-> [i \in 1..Len(meta) |-> pulls[i].val]]

RECURSIVE recursive_extract(_)
\* _recursive_extract(data, ["products"], {}, level=0): records, lengths and
\* meta_vals accumulated over the objects of data, in order
recursive_extract(objs) ==
    IF objs = <<>>
    THEN [exc |-> "none", after |-> <<>>, records |-> <<>>, lengths |-> <<>>,
          meta_vals |-> [i \in 1..Len(meta) |-> <<>>]]
    ELSE LET h == extract_obj(Head(objs))
         IN IF h.exc # "none"
            THEN [exc |-> h.exc, after |-> <<h.after>> \o Tail(objs)]
            ELSE LET rest == recursive_extract(Tail(objs))
                 IN IF rest.exc # "none"
                    THEN [exc |-> rest.exc, after |-> <<h.after>> \o rest.after]
                    ELSE [exc |-> "none",
                          after |-> <<h.after>> \o rest.after,
                          records |-> h.records \o rest.records,
                          lengths |-> <<Len(h.records)>> \o rest.lengths,
                          meta_vals |-> [i \in 1..Len(meta) |->
                                           <<h.meta_val[i]>> \o rest.meta_vals[i]]]

RECURSIVE attach_meta(_, _, _, _)
\* the loop "for k, v in meta_vals.items()": a meta key that is already a
\* column of result is a ValueError, otherwise the repeated values become
\* column k
attach_meta(result, i, meta_vals, lengths) ==
    IF i > Len(meta_keys) THEN Ok(result)
    ELSE IF meta_keys[i] \in result.columns THEN Raise("ValueError")
    ELSE LET r == set_column(result, meta_keys[i], repeat(meta_vals[i], lengths))
         IN IF r.exc # "none" THEN r
            ELSE attach_meta(r.val, i + 1, meta_vals, lengths)

\* pd.json_normalize(d, record_path="products", meta=[...]): the frame or the
\* exception (out), and the argument object as the call leaves it (data)
json_normalize(d) ==
    IF d.t \notin {"dict", "list"}
    THEN [out |-> Raise("NotImplementedError"), data |-> d]
    ELSE LET objs == IF d.t = "dict" THEN <<d>> ELSE d.l
             x == recursive_extract(objs)
             after == IF d.t = "dict" THEN x.after[1] ELSE Lst(x.after)
         IN IF x.exc # "none" THEN [out |-> Raise(x.exc), data |-> after]
            ELSE [out |-> attach_meta(DataFrame(x.records), 1, x.meta_vals, x.lengths),
                  data |-> after]

\* flatten(data)
flatten(d) == json_normalize(d)

----------------------------------------------------------------------------
(* Inputs *)

customer_full ==
    [k \in {"customer_id", "name", "email", "address"} |->
        CASE k = "customer_id" -> Str("C1")
          [] k = "name" -> Str("A")
          [] k = "email" -> Str("a@x.com")
          [] k = "address" -> Str("1 Rd")]

order_full ==
    [k \in {"order_id", "order_date", "total_amount", "customer"} |->
        CASE k = "order_id" -> Str("O1")
          [] k = "order_date" -> Str("2024-01-01")
          [] k = "total_amount" -> Num(1998)
          [] k = "customer" -> Dict(customer_full)]

Restrict(f, S) == [k \in S |-> f[k]]

\* the order-level part of an order: complete, or without one top-level field,
\* or with a customer that lacks one field, is null, or is not a mapping
MetaParts ==
    {order_full}
    \cup {Restrict(order_full, DOMAIN order_full \ {k}) : k \in DOMAIN order_full}
    \cup {[order_full EXCEPT !["customer"] =
              Dict(Restrict(customer_full, DOMAIN customer_full \ {k}))]
          : k \in DOMAIN customer_full}
    \cup {[order_full EXCEPT !["customer"] = Null],
          [order_full EXCEPT !["customer"] = Str("C1")]}

\* item field names (one of them spelled like a meta column) and values (a
\* scalar and a nested mapping)
ItemKeys == {"sku", "qty", "order_id"}
ItemVals(k) ==
    CASE k = "sku" -> {Str("X"), Str("Y"), Dict([w \in {"w"} |-> Num(1)])}
      [] k = "qty" -> {Num(2)}
      [] k = "order_id" -> {Str("X")}
Items ==
    UNION {{it \in [S -> UNION {ItemVals(k) : k \in ItemKeys}] :
                \A k \in S : it[k] \in ItemVals(k)}
           : S \in SUBSET ItemKeys}

ItemLists == UNION {[1..n -> {Dict(it) : it \in Items}] : n \in 0..MaxItems}

\* what the order holds under "products"
ProductsValues ==
    {Lst(l) : l \in ItemLists}
    \cup {Null, NaN, Str("abc"), Num(5), Dict([k \in {"sku"} |-> Str("X")])}

Extend(f, k, v) == [x \in DOMAIN f \cup {k} |-> IF x = k THEN v ELSE f[x]]

Orders ==
    {Dict(m) : m \in MetaParts}
    \cup {Dict(Extend(m, record_path, p)) : m \in MetaParts, p \in ProductsValues}

----------------------------------------------------------------------------
(* flatten called on one input object, MaxCalls times *)

Invocations == 1..NumInvocations
Idle == [i \in Invocations |-> "idle"]
None == [i \in Invocations |-> Null]

InitFlatten ==
    /\ data \in Orders
    /\ snapshot = data
    /\ outs = <<>>
    /\ pc = Idle
    /\ content = None
    /\ order = None
    /\ df = None
    /\ buffer = None
    /\ keyStaging = None
    /\ puts = [i \in Invocations |-> 0]
    /\ env = <<>>
    /\ clock = 0
    /\ curated = <<>>
    /\ putLog = <<>>

\* flatten(data) returns a frame
FlattenReturns ==
    /\ Len(outs) < MaxCalls
    /\ flatten(data).out.exc = "none"
    /\ outs' = Append(outs, flatten(data).out)
    /\ data' = flatten(data).data
    /\ UNCHANGED <<snapshot, handlerVars>>

\* flatten(data) raises
FlattenRaises ==
    /\ Len(outs) < MaxCalls
    /\ flatten(data).out.exc # "none"
    /\ outs' = Append(outs, flatten(data).out)
    /\ data' = flatten(data).data
    /\ UNCHANGED <<snapshot, handlerVars>>

NextFlatten == FlattenReturns \/ FlattenRaises

Spec == InitFlatten /\ [][NextFlatten]_vars

----------------------------------------------------------------------------
(* lambda_handler and what it talks to *)

\* the text of an S3 object: JSON text of a value, or text that is no JSON
Text(v) == [t |-> "text", json |-> v]
Garbage == [t |-> "text", garbage |-> TRUE]

\* json.loads(text)
json_loads(text) ==
    IF "json" \in DOMAIN text THEN Ok(text.json) ELSE Raise("JSONDecodeError")

\* the Python types met in column c of a frame, missing cells aside
CellTypes(frame, c) ==
    {frame.rows[i][c].t : i \in 1..Len(frame.rows)} \ {"nan", "null"}

\* df.to_parquet(parquet_buffer, index=False, engine='pyarrow'): the bytes put
\* into the buffer, a complete parquet file of the frame's columns and rows;
\* pyarrow refuses an object column that mixes Python types
to_parquet(frame) ==
    IF \E c \in frame.columns : Cardinality(CellTypes(frame, c)) > 1
    THEN Raise("ArrowTypeError")
    ELSE Ok([t |-> "parquet", columns |-> frame.columns, rows |-> frame.rows])

\* now.strftime("%Y%m%d_%H%M%S"): the instant cut to its whole second
strftime(now) == now \div TicksPerSecond

\* f"{curated_prefix}orders_parquet_datalake/orders_ETL_{timestamp}.parquet"
key_staging(curated_prefix, timestamp) ==
    <<curated_prefix, "orders_parquet_datalake/orders_ETL_", timestamp, ".parquet">>

\* the deployment's environment: complete, or with one variable not set
full_env ==
    [k \in {"CURATED_BUCKET", "CURATED_PREFIX"} |->
        IF k = "CURATED_BUCKET" THEN "curated-bucket" ELSE "curated/"]
Envs == {full_env} \cup {Restrict(full_env, DOMAIN full_env \ {k}) : k \in DOMAIN full_env}

\* orders a raw object may hold: the two-item order, an order with no items,
\* an order without products, an order whose sku column mixes types
Item2(sku, qty) == Dict([k \in {"sku", "qty"} |-> IF k = "sku" THEN sku ELSE qty])
order_two_items ==
    Dict(Extend(order_full, record_path,
                Lst(<<Item2(Str("X"), Num(2)), Item2(Str("Y"), Num(1))>>)))
order_no_items == Dict(Extend(order_full, record_path, Lst(<<>>)))
order_no_products == Dict(order_full)
order_mixed_sku ==
    Dict(Extend(order_full, record_path,
                Lst(<<Item2(Str("X"), Num(2)), Item2(Num(7), Num(1))>>)))

Contents ==
    {Text(order_two_items), Text(order_no_items), Text(order_no_products),
     Text(order_mixed_sku), Garbage}

\* the locals of an invocation that is over are gone
Ended(i) ==
    /\ content' = [content EXCEPT ![i] = Null]
    /\ order' = [order EXCEPT ![i] = Null]
    /\ df' = [df EXCEPT ![i] = Null]
    /\ buffer' = [buffer EXCEPT ![i] = Null]
    /\ keyStaging' = [keyStaging EXCEPT ![i] = Null]

InitHandler ==
    /\ data = Null
    /\ snapshot = Null
    /\ outs = <<>>
    /\ pc = [i \in Invocations |-> "config"]
    /\ content = None
    /\ order = None
    /\ df = None
    /\ buffer = None
    /\ keyStaging = None
    /\ puts = [i \in Invocations |-> 0]
    /\ env \in Envs
    /\ clock = 0
    /\ curated = <<>>
    /\ putLog = <<>>

\* lines 26-31: the event's bucket and key, the two environment variables
\* (a variable not set is a KeyError), the client
ReadConfig(i) ==
    /\ pc[i] = "config"
    /\ IF {"CURATED_BUCKET", "CURATED_PREFIX"} \subseteq DOMAIN env
       THEN pc' = [pc EXCEPT ![i] = "get"]
       ELSE pc' = [pc EXCEPT ![i] = "raised_config"]
    /\ UNCHANGED <<flattenVars, content, order, df, buffer, keyStaging, puts, env,
                   clock, curated, putLog>>

\* lines 32-33: get_object and read().decode('utf-8') give the object's text
GetObject(i) ==
    /\ pc[i] = "get"
    /\ \E c \in Contents :
          /\ content' = [content EXCEPT ![i] = c]
          /\ pc' = [pc EXCEPT ![i] = "loads"]
    /\ UNCHANGED <<flattenVars, order, df, buffer, keyStaging, puts, env, clock,
                   curated, putLog>>

\* lines 32-33: get_object fails (no such key, access denied, ...)
GetObjectFails(i) ==
    /\ pc[i] = "get"
    /\ pc' = [pc EXCEPT ![i] = "raised_get"]
    /\ Ended(i)
    /\ UNCHANGED <<flattenVars, puts, env, clock, curated, putLog>>

\* line 34: data = json.loads(content)
JsonLoads(i) ==
    /\ pc[i] = "loads"
    /\ LET r == json_loads(content[i])
       IN IF r.exc = "none"
          THEN /\ order' = [order EXCEPT ![i] = r.val]
               /\ pc' = [pc EXCEPT ![i] = "flatten"]
               /\ UNCHANGED <<content, df, buffer, keyStaging>>
          ELSE /\ pc' = [pc EXCEPT ![i] = "raised_loads"]
               /\ Ended(i)
    /\ UNCHANGED <<flattenVars, puts, env, clock, curated, putLog>>

\* line 35: df = flatten(data)
Flatten(i) ==
    /\ pc[i] = "flatten"
    /\ LET r == flatten(order[i])
       IN IF r.out.exc = "none"
          THEN /\ df' = [df EXCEPT ![i] = r.out.val]
               /\ order' = [order EXCEPT ![i] = r.data]
               /\ pc' = [pc EXCEPT ![i] = "encode"]
               /\ UNCHANGED <<content, buffer, keyStaging>>
          ELSE /\ pc' = [pc EXCEPT ![i] = "raised_flatten"]
               /\ Ended(i)
    /\ UNCHANGED <<flattenVars, puts, env, clock, curated, putLog>>

\* lines 36-38 with the encoder's exception swallowed: the handler goes on
\* with what the buffer holds by then
Encode_swallowing(i) ==
    /\ pc[i] = "encode"
    /\ LET r == to_parquet(df[i])
       IN buffer' = [buffer EXCEPT ![i] =
                        IF r.exc = "none" THEN r.val ELSE [t |-> "partial"]]
    /\ pc' = [pc EXCEPT ![i] = "stamp"]
    /\ UNCHANGED <<flattenVars, content, order, df, keyStaging, puts, env, clock,
                   curated, putLog>>

\* lines 36-38: print(df), then the frame encoded into the in-memory buffer
Encode(i) ==
    /\ pc[i] = "encode"
    /\ LET r == to_parquet(df[i])
       IN IF r.exc = "none"
          THEN /\ buffer' = [buffer EXCEPT ![i] = r.val]
               /\ pc' = [pc EXCEPT ![i] = "stamp"]
               /\ UNCHANGED <<content, order, df, keyStaging>>
          ELSE /\ pc' = [pc EXCEPT ![i] = "raised_encode"]
               /\ Ended(i)
    /\ UNCHANGED <<flattenVars, puts, env, clock, curated, putLog>>

\* lines 40-44: the key from the prefix and the present second
Stamp(i) ==
    /\ pc[i] = "stamp"
    /\ keyStaging' = [keyStaging EXCEPT ![i] =
                        key_staging(env["CURATED_PREFIX"], strftime(clock))]
    /\ pc' = [pc EXCEPT ![i] = "put"]
    /\ UNCHANGED <<flattenVars, content, order, df, buffer, puts, env, clock,
                   curated, putLog>>

\* the object put_object stores
put_body(i) == buffer[i]

\* line 46: put_object stores parquet_buffer.getvalue() under key_staging,
\* replacing what was there
PutObject(i) ==
    /\ pc[i] = "put"
    /\ puts' = [puts EXCEPT ![i] = @ + 1]
    /\ curated' = Extend(curated, keyStaging[i], [body |-> put_body(i), by |-> i])
    /\ putLog' = Append(putLog, [by |-> i, key |-> keyStaging[i],
                                 body |-> put_body(i), src |-> content[i]])
    /\ pc' = [pc EXCEPT ![i] = "return"]
    /\ UNCHANGED <<flattenVars, content, order, df, buffer, keyStaging, env, clock>>

\* line 46: put_object fails, nothing is stored
PutObjectFails(i) ==
    /\ pc[i] = "put"
    /\ puts' = [puts EXCEPT ![i] = @ + 1]
    /\ pc' = [pc EXCEPT ![i] = "raised_put"]
    /\ Ended(i)
    /\ UNCHANGED <<flattenVars, env, clock, curated, putLog>>

\* lines 48-51: statusCode 200
Return(i) ==
    /\ pc[i] = "return"
    /\ pc' = [pc EXCEPT ![i] = "done"]
    /\ Ended(i)
    /\ UNCHANGED <<flattenVars, puts, env, clock, curated, putLog>>

Running == {"config", "get", "loads", "flatten", "encode", "stamp", "put", "return"}

\* the execution environment's timeout ends the invocation where it is
Abort(i) ==
    /\ pc[i] \in Running
    /\ pc' = [pc EXCEPT ![i] = "aborted"]
    /\ Ended(i)
    /\ UNCHANGED <<flattenVars, puts, env, clock, curated, putLog>>

\* time passes
Tick ==
    /\ clock < MaxClock
    /\ clock' = clock + 1
    /\ UNCHANGED <<flattenVars, pc, content, order, df, buffer, keyStaging, puts,
                   env, curated, putLog>>

NextHandler ==
    \/ \E i \in Invocations : ReadConfig(i)
    \/ \E i \in Invocations : GetObject(i)
    \/ \E i \in Invocations : GetObjectFails(i)
    \/ \E i \in Invocations : JsonLoads(i)
    \/ \E i \in Invocations : Flatten(i)
    \/ \E i \in Invocations : Encode(i)
    \/ \E i \in Invocations : Stamp(i)
    \/ \E i \in Invocations : PutObject(i)
    \/ \E i \in Invocations : PutObjectFails(i)
    \/ \E i \in Invocations : Return(i)
    \/ \E i \in Invocations : Abort(i)
    \/ Tick

SpecHandler == InitHandler /\ [][NextHandler]_vars

----------------------------------------------------------------------------
(* Vocabulary of the properties of flatten, stated on the input order and   *)
(* the returned frame                                                       *)

MetaColumns == {"order_id", "order_date", "total_amount", "customer.customer_id",
                "customer.name", "customer.email", "customer.address"}

\* the value of the source order a meta column stands for
SourceValue(d, col) ==
    CASE col = "order_id" -> d.d["order_id"]
      [] col = "order_date" -> d.d["order_date"]
      [] col = "total_amount" -> d.d["total_amount"]
      [] col = "customer.customer_id" -> d.d["customer"].d["customer_id"]
      [] col = "customer.name" -> d.d["customer"].d["name"]
      [] col = "customer.email" -> d.d["customer"].d["email"]
      [] col = "customer.address" -> d.d["customer"].d["address"]

\* every required meta field of the order is there
HasMeta(d) ==
    /\ {"order_id", "order_date", "total_amount", "customer"} \subseteq DOMAIN d.d
    /\ d.d["customer"].t = "dict"
    /\ {"customer_id", "name", "email", "address"} \subseteq DOMAIN d.d["customer"].d

\* the order holds a list under "products"
HasItemList(d) == "products" \in DOMAIN d.d /\ d.d["products"].t = "list"

ItemsOf(d) == d.d["products"].l

\* every field of every item is a scalar
ScalarItems(d) ==
    \A i \in 1..Len(ItemsOf(d)) :
        \A k \in DOMAIN ItemsOf(d)[i].d : ItemsOf(d)[i].d[k].t # "dict"

\* the cells of row that do not come from the order level are the fields of
\* item, a nested mapping spread over columns named outer.inner
BuiltFrom(row, item) ==
    /\ \A k \in DOMAIN item :
          IF item[k].t # "dict"
          THEN k \in DOMAIN row /\ row[k] = item[k]
          ELSE \A w \in DOMAIN item[k].d :
                  /\ (k \o "." \o w) \in DOMAIN row
                  /\ row[k \o "." \o w] = item[k].d[w]
    /\ \A c \in DOMAIN row \ MetaColumns :
          \/ row[c] = NaN
          \/ c \in DOMAIN item /\ item[c].t # "dict"
          \/ \E k \in DOMAIN item :
                /\ item[k].t = "dict"
                /\ \E w \in DOMAIN item[k].d : c = k \o "." \o w

Returned(c) == outs[c].exc = "none"
Frame(c) == outs[c].val

\* C1: for every order whose products is a list of N item mappings and whose
\* meta fields are all present, flatten returns exactly N rows and row i is
\* built from products[i] (order kept, nothing dropped, merged or deduplicated)
C1_OneRowPerItemInOrder ==
    \A c \in 1..Len(outs) :
        (HasItemList(snapshot) /\ HasMeta(snapshot)) =>
            /\ Returned(c)
            /\ Len(Frame(c).rows) = Len(ItemsOf(snapshot))
            /\ \A i \in 1..Len(ItemsOf(snapshot)) :
                  BuiltFrom(Frame(c).rows[i], ItemsOf(snapshot)[i].d)

\* C2: every row of a frame flatten returns carries the seven meta columns, and
\* each holds the value the source order has for it
C2_MetaColumnsEqualSource ==
    \A c \in 1..Len(outs) :
        Returned(c) =>
            /\ HasMeta(snapshot)
            /\ MetaColumns \subseteq Frame(c).columns
            /\ \A i \in 1..Len(Frame(c).rows) :
                  \A col \in MetaColumns :
                      /\ col \in DOMAIN Frame(c).rows[i]
                      /\ Frame(c).rows[i][col] = SourceValue(snapshot, col)

C2_Witness ==
    /\ Len(outs) >= 1
    /\ Returned(1)
    /\ Len(Frame(1).rows) >= 2

\* C3: for every item and every (k, v) of it the row has column k holding v,
\* whatever k is spelled like, a meta column's name included; the input is
\* not rejected
C3_ItemFieldsKeptUnderAnyName ==
    \A c \in 1..Len(outs) :
        (HasItemList(snapshot) /\ HasMeta(snapshot) /\ ScalarItems(snapshot)) =>
            /\ Returned(c)
            /\ \A i \in 1..Len(ItemsOf(snapshot)) :
                  \A k \in DOMAIN ItemsOf(snapshot)[i].d :
                      /\ k \in Frame(c).columns
                      /\ Frame(c).rows[i][k] = ItemsOf(snapshot)[i].d[k]

\* the items of the order do not all have the same key set
DifferentKeySets(d) ==
    \E i, j \in 1..Len(ItemsOf(d)) : DOMAIN ItemsOf(d)[i].d # DOMAIN ItemsOf(d)[j].d

\* C4: when the items of an order have different key sets flatten does not
\* raise, the columns are the union of the item keys and the meta columns,
\* every row has every column, a row whose item lacks k holds the no-value
\* marker in k and keeps its item's values elsewhere
C4_ColumnUnionWithNoValueMarker ==
    \A c \in 1..Len(outs) :
        (/\ HasItemList(snapshot) /\ HasMeta(snapshot) /\ ScalarItems(snapshot)
         /\ DifferentKeySets(snapshot)) =>
            /\ Returned(c)
            /\ Frame(c).columns =
                 MetaColumns \cup
                 UNION {DOMAIN ItemsOf(snapshot)[i].d : i \in 1..Len(ItemsOf(snapshot))}
            /\ \A i \in 1..Len(ItemsOf(snapshot)) :
                  /\ DOMAIN Frame(c).rows[i] = Frame(c).columns
                  /\ \A k \in Frame(c).columns \ MetaColumns :
                        Frame(c).rows[i][k] =
                            IF k \in DOMAIN ItemsOf(snapshot)[i].d
                            THEN ItemsOf(snapshot)[i].d[k] ELSE NaN

\* C5 (the part about flatten): an order without a products key, or with a
\* products value that is not a list, makes flatten raise
C5_NonListProductsRaises ==
    \A c \in 1..Len(outs) :
        (~ HasItemList(snapshot)) => ~ Returned(c)

\* a required meta field is absent: a top-level one, the customer object or
\* one of its four fields
MetaAbsent(d) == ~ HasMeta(d)

\* C6: when a required meta field is absent flatten raises, whatever the
\* length of products, the empty list included
C6_MissingMetaRaises ==
    \A c \in 1..Len(outs) :
        MetaAbsent(snapshot) => ~ Returned(c)

C6_Witness ==
    /\ Len(outs) >= 1
    /\ MetaAbsent(snapshot)
    /\ HasItemList(snapshot)
    /\ ItemsOf(snapshot) = <<>>
    /\ ~ Returned(1)

----------------------------------------------------------------------------
(* Properties of lambda_handler *)

\* an order with every meta field and an empty products list
IsEmptyOrder(o) ==
    /\ o.t = "dict"
    /\ HasMeta(o)
    /\ HasItemList(o)
    /\ ItemsOf(o) = <<>>

EmptyParquet == [t |-> "parquet", columns |-> MetaColumns, rows |-> <<>>]

\* C7: for an order with all meta fields and products = [], flatten raises
\* nothing and returns zero rows, and lambda_handler goes on to encode that
\* frame and to write the encoded buffer, step by step as for any other frame
C7_EmptyOrderFlowsThrough ==
    [][\A i \in Invocations :
          IsEmptyOrder(order[i]) =>
            /\ (pc[i] = "flatten" /\ pc'[i] # "flatten") =>
                  \/ pc'[i] = "aborted"
                  \/ /\ pc'[i] = "encode"
                     /\ df'[i].rows = <<>>
                     /\ df'[i].columns = MetaColumns
            /\ (pc[i] = "encode" /\ pc'[i] # "encode") =>
                  \/ pc'[i] = "aborted"
                  \/ /\ pc'[i] = "stamp"
                     /\ buffer'[i] = EmptyParquet
            /\ (pc[i] = "put" /\ pc'[i] = "return") =>
                  /\ keyStaging[i] \in DOMAIN curated'
                  /\ curated'[keyStaging[i]].body = EmptyParquet
      ]_vars

C7_Witness ==
    \E a \in 1..Len(putLog) :
        /\ putLog[a].src = Text(order_no_items)
        /\ putLog[a].body = EmptyParquet
        /\ pc[putLog[a].by] = "done"

\* C8: any two successful invocations write under different destination keys,
\* so no invocation's object is overwritten by another's
C8_DistinctDestinationKeys ==
    \A a, b \in 1..Len(putLog) :
        a # b => putLog[a].key # putLog[b].key

Raised == {"raised_config", "raised_get", "raised_loads", "raised_flatten",
           "raised_encode", "raised_put"}

\* the completed writes of invocation i
WritesOf(i) == {a \in 1..Len(putLog) : putLog[a].by = i}

\* body is the whole parquet encoding of the frame flatten returns for the
\* order that text holds
CompleteEncodingOf(body, text) ==
    /\ json_loads(text).exc = "none"
    /\ flatten(json_loads(text).val).out.exc = "none"
    /\ to_parquet(flatten(json_loads(text).val).out.val) = Ok(body)

\* C9: put_object is called at most once per invocation, only after fetch,
\* decode, flatten and encoding have all succeeded, and with the complete
\* buffer; an invocation that raised before the write or was aborted before
\* it has written nothing, and statusCode 200 is returned only after the write
C9_WriteOnceAfterEncoding ==
    /\ \A i \in Invocations :
          /\ puts[i] <= 1
          /\ Cardinality(WritesOf(i)) <= puts[i]
          /\ WritesOf(i) # {} => pc[i] \in {"return", "done", "aborted"}
          /\ pc[i] = "done" => WritesOf(i) # {}
          /\ pc[i] \in Raised => WritesOf(i) = {}
          /\ (pc[i] = "aborted" /\ puts[i] = 0) => WritesOf(i) = {}
    /\ \A a \in 1..Len(putLog) : CompleteEncodingOf(putLog[a].body, putLog[a].src)
    /\ \A k \in DOMAIN curated :
          \E a \in 1..Len(putLog) :
              putLog[a].key = k /\ putLog[a].body = curated[k].body

C9_Witness ==
    \E i, j \in Invocations :
        /\ pc[i] = "done"
        /\ WritesOf(i) # {}
        /\ pc[j] = "raised_encode"
        /\ WritesOf(j) = {}

====
